---- MODULE Spec2Model ----
(***************************************************************************)
(* A model of the tinypointers crate: the global arena MEMORY (lib.rs),    *)
(* the raw handle TinyPtr (lib.rs), and the refcounted pair TinyArc /      *)
(* TinyWeak (sync.rs).  Threads call the crate's functions; every function *)
(* is cut into steps at the points where it acquires a lock or touches the *)
(* atomic count, so that interleavings of the original are interleavings   *)
(* of the model.                                                           *)
(***************************************************************************)
EXTENDS Integers, Sequences, FiniteSets, TLC

\* RawId::MAX, scaled down from 255 (NonZeroU8) / 65535 (NonZeroU16).
MaxId == 3
\* Number of client threads.
NThreads == 2
\* Largest payload value the clients store.
MaxVal == 2
\* Inserts are only started while the table is shorter than MaxId + MaxOver.
MaxOver == 2
\* Width of usize, scaled down from 64 bits.
UsizeBits == 8
\* Width of the AtomicU32 count, scaled down from 32 bits.
CountBits == 4
\* Clones and upgrades are only started while the count is below MaxArcs.
MaxArcs == 3
\* At most MaxWeaks weak pointers to one cell are kept.
MaxWeaks == 2
\* At most MaxBoxes TinyBoxes are created in the runs that follow boxes.
MaxBoxes == 2

Threads == 1..NThreads
Values == 1..MaxVal
\* The ids RawId can hold: 1 .. RawId::MAX; a cast to RawId is modulo IdMod.
IdMod == MaxId + 1
UsizeMod == 2^UsizeBits
CountMod == 2^CountBits
SlotIds == 1..(MaxId + MaxOver + NThreads)

VARIABLES
    map,        \* Memory.map: the slot table, a sequence of slots
    available,  \* Memory.available: the free list, a sequence of ids
    mapLock,    \* the thread holding map's write lock, or 0
    availLock,  \* the thread holding available's mutex, or 0
    pc,         \* pc[t]: where thread t is inside the call it is running
    op,         \* op[t]: the public function thread t is running
    arg,        \* arg[t]: the id and the value of the running call
    result,     \* how the call that returned last ended
    issued,     \* history: the raw handles and boxes returned by TinyPtr::new
    arcs,       \* arcs[t][id]: the TinyArcs over slot id that thread t owns
    weaks,      \* weaks[id]: the TinyWeaks over slot id that exist
    cyc,        \* cyc[t]: the slot whose new_cyclic builder t is running, or 0
    cells,      \* history: the ids of the RefCounted cells inserted so far
    takes,      \* history: takes[id], how often a RefCounted cell was taken
    ub          \* history: a pointer to a freed cell has been used

arena == <<map, available, mapLock, availLock>>
control == <<pc, op, arg, result>>
owned == <<issued, arcs, weaks, cyc, cells, takes, ub>>
vars == <<arena, control, owned>>

----------------------------------------------------------------------------
\* Slots.  Option<Value>: None, or Some(type-erased value).  A value is a
\* plain payload (rc = FALSE) or a RefCounted cell (rc = TRUE, with a count).

None == [occ |-> FALSE, rc |-> FALSE, count |-> 0, value |-> 0]

Value(v) == [occ |-> TRUE, rc |-> FALSE, count |-> 0, value |-> v]

\* RefCounted { count: AtomicU32::new(c), value: v } behind the Value.
RefCounted(c, v) == [occ |-> TRUE, rc |-> TRUE, count |-> c, value |-> v]

\* MaybeUninit::uninit().assume_init(): the placeholder new_cyclic stores.
Uninit == 0

\* How a call ends: a tag and a number.
Res(tag, v) == [tag |-> tag, v |-> v]

NoArg == [id |-> 0, val |-> None]

Panics == {"NoSlots", "Underflow", "ZeroId", "OutOfBounds", "Freed", "NotBuilt"}

----------------------------------------------------------------------------
\* Mutant of access: the Option is not checked for None.
access_unchecked(m, id) ==
    IF id - 1 >= Len(m) THEN Res("OutOfBounds", 0)
    ELSE Res("value", m[id].value)

\* Memory::access on table m and id: the slot's content, or the panic.
access(m, id) ==
    IF id - 1 >= Len(m) THEN Res("OutOfBounds", 0)
    ELSE IF ~m[id].occ THEN Res("Freed", 0)
    ELSE Res("value", m[id].value)

\* Mutant of take: the slot is read but left in place (as_ref for take).
take_keep(m, id) == m

\* Mutant of take: the 1-based id is used as the 0-based index.
take_next(m, id) ==
    IF id < Len(m) THEN [m EXCEPT ![id + 1] = None] ELSE m

\* The table after Memory::take of id (Option::take leaves None behind).
take(m, id) ==
    IF id - 1 < Len(m) THEN [m EXCEPT ![id] = None] ELSE m

\* Mutant of remaing_slots: one slot too many.
remaing_slots_plus(avail, m) ==
    {Res("value", (Len(avail) + MaxId + 1 - Len(m)) % UsizeMod)}
    \cup (IF Len(m) > MaxId + 1 THEN {Res("Underflow", 0)} ELSE {})

\* Memory::remaing_slots: available.len() + (RawId::MAX - map.len()), in usize.
\* The subtraction overflows when the table is longer than RawId::MAX: the
\* build decides between a wrap-around (overflow checks off) and a panic
\* (overflow checks on), so both outcomes are possible.
remaing_slots(avail, m) ==
    {Res("value", (Len(avail) + MaxId - Len(m)) % UsizeMod)}
    \cup (IF Len(m) > MaxId THEN {Res("Underflow", 0)} ELSE {})

\* The match of insert_value: pop the free list; None: push the value and use
\* map.len() cast to RawId as the id; Some(idx): overwrite slot idx.
\* id = 0 stands for RawId::new(0) = None, on which unwrap panics.
insert_slot(m, avail, value) ==
    IF avail = <<>>
    THEN [map |-> Append(m, value), available |-> avail,
          id |-> (Len(m) + 1) % IdMod]
    ELSE LET idx == avail[Len(avail)]
         IN [map |-> [m EXCEPT ![idx] = value],
             available |-> SubSeq(avail, 1, Len(avail) - 1),
             id |-> idx]

----------------------------------------------------------------------------
\* History of raw handles.

Live == {h \in DOMAIN issued : issued[h].st = "live"}
Taken == {h \in DOMAIN issued : issued[h].st = "taken"}

Idle(t) == pc[t] = "idle"

\* Thread t is between calls and not inside a new_cyclic builder.
Free(t) == pc[t] = "idle" /\ cyc[t] = 0

\* The end of the call `name` of thread t with outcome r.
ReturnAs(t, name, r) ==
    /\ pc' = [pc EXCEPT ![t] = "idle"]
    /\ op' = [op EXCEPT ![t] = "none"]
    /\ arg' = [arg EXCEPT ![t] = NoArg]
    /\ result' = [by |-> name, tag |-> r.tag, v |-> r.v]

Return(t, r) == ReturnAs(t, op[t], r)

\* The outcome (tag, v) of a call of `name`.
Ret(name, tag, v) == [by |-> name, tag |-> tag, v |-> v]

Goto(t, label) ==
    /\ pc' = [pc EXCEPT ![t] = label]
    /\ UNCHANGED <<op, arg, result>>

Call(t, name, label, id, val) ==
    /\ pc' = [pc EXCEPT ![t] = label]
    /\ op' = [op EXCEPT ![t] = name]
    /\ arg' = [arg EXCEPT ![t] = [id |-> id, val |-> val]]
    /\ UNCHANGED result

\* The slot a pointer obtained from access(id) points to; a freed cell reads
\* as None.
Cell(id) == IF id \in DOMAIN map THEN map[id] ELSE None

Held(id) == {t \in Threads : arcs[t][id] > 0}

----------------------------------------------------------------------------
\* TinyPtr::new(value): calls MEMORY.insert_value.
StartInsert(t, v) ==
    /\ Free(t)
    /\ Len(map) < MaxId + MaxOver
    /\ Call(t, "insert", "rem_avail", 0, Value(v))
    /\ UNCHANGED <<arena, owned>>

\* remaing_slots, first operand: self.available.lock().  The guard is a
\* temporary of the function's tail expression: it is held until remaing_slots
\* returns.
RemLockAvail(t) ==
    /\ pc[t] = "rem_avail"
    /\ availLock = 0
    /\ availLock' = t
    /\ Goto(t, "rem_map")
    /\ UNCHANGED <<map, available, mapLock, owned>>

\* remaing_slots, second operand: self.map.read(), taken while the free-list
\* mutex is held; then both guards are dropped and insert_value tests the sum.
RemReadMap(t) ==
    /\ pc[t] = "rem_map"
    /\ mapLock = 0
    /\ availLock' = 0
    /\ \E r \in remaing_slots(available, map) :
          IF r.tag # "value" THEN Return(t, r)
          ELSE IF r.v = 0 THEN Return(t, Res("NoSlots", 0))
          ELSE Goto(t, "ins_map")
    /\ UNCHANGED <<map, available, mapLock, owned>>

\* insert_value: let mut map = self.map.write().
InsLockMap(t) ==
    /\ pc[t] = "ins_map"
    /\ mapLock = 0
    /\ mapLock' = t
    /\ Goto(t, "ins_pop")
    /\ UNCHANGED <<map, available, availLock, owned>>

\* The callers of TinyPtr::new that keep the plain handle: TinyPtr::new itself
\* (TinyBox::new wraps it) and TinyBox::clone.
RawOps == {"insert", "box_clone"}

\* What the caller of insert_value keeps of the returned TinyPtr: TinyPtr::new
\* hands out the raw handle, TinyArc::new wraps it in a TinyArc, new_cyclic
\* wraps it in the TinyWeak it passes to the builder.
Inserted(t, id) ==
    /\ issued' = IF op[t] \in RawOps
                 THEN Append(issued, [id |-> id, val |-> arg[t].val.value,
                                      st |-> "live", got |-> 0,
                                      src |-> arg[t].id, drops |-> 0])
                 ELSE issued
    /\ arcs' = IF op[t] = "arc_new"
               THEN [arcs EXCEPT ![t][id] = @ + 1] ELSE arcs
    /\ weaks' = IF op[t] = "new_cyclic"
                THEN [weaks EXCEPT ![id] = @ + 1] ELSE weaks
    /\ cyc' = IF op[t] = "new_cyclic" THEN [cyc EXCEPT ![t] = id] ELSE cyc
    /\ cells' = IF op[t] \in RawOps THEN cells ELSE cells \cup {id}
    /\ UNCHANGED <<takes, ub>>

\* insert_value: match self.available.lock().pop() { ... }, under the write
\* lock; both guards are dropped when insert_value returns or unwinds.
InsPop(t) ==
    /\ pc[t] = "ins_pop"
    /\ availLock = 0
    /\ LET s == insert_slot(map, available, arg[t].val)
       IN /\ map' = s.map
          /\ available' = s.available
          /\ IF s.id = 0
             THEN /\ Return(t, Res("ZeroId", 0))
                  /\ UNCHANGED owned
             ELSE /\ Return(t, Res("handle", s.id))
                  /\ Inserted(t, s.id)
    /\ mapLock' = 0
    /\ UNCHANGED availLock

\* TinyPtr::get on handle h: MEMORY.access under the read lock, then the read
\* through the returned pointer.
Access(t, h) ==
    /\ Free(t)
    /\ mapLock = 0
    /\ ReturnAs(t, "get", access(map, issued[h].id))
    /\ UNCHANGED <<arena, owned>>

\* TinyPtr::take on handle h: MEMORY.take under the write lock.
Take(t, h) ==
    /\ Free(t)
    /\ mapLock = 0
    /\ LET r == access(map, issued[h].id)
       IN /\ ReturnAs(t, "take", r)
          /\ map' = IF r.tag = "value" THEN take(map, issued[h].id) ELSE map
          /\ issued' = IF r.tag = "value"
                       THEN [issued EXCEPT ![h].st = "taken", ![h].got = r.v]
                       ELSE issued
    /\ UNCHANGED <<available, mapLock, availLock>>
    /\ UNCHANGED <<arcs, weaks, cyc, cells, takes, ub>>

----------------------------------------------------------------------------
\* boxed.rs: TinyBox, the owner of one raw handle.  TinyBox::new is
\* TinyPtr::new (StartInsert); a box is a handle of `issued` that is live, and
\* issued[h].val is the value last written through it.

\* Mutant of write: the 1-based id is used as the 0-based index.
write_next(m, id, v) ==
    IF id < Len(m) THEN [m EXCEPT ![id + 1].value = v] ELSE m

\* The table after `*b = v` through the pointer deref_mut returned for id.
write(m, id, v) == [m EXCEPT ![id].value = v]

\* Mutant of take_box: every slot is emptied.
take_all(m, id) == [i \in DOMAIN m |-> None]

\* The table after TinyBox::drop's self.0.take() on id.
take_box(m, id) == take(m, id)

\* Deref of box h: &*self.0.get().
BoxDeref(t, h) ==
    /\ issued[h].st = "live"
    /\ Access(t, h)

\* DerefMut of box h and the assignment of v through it: MEMORY.access under
\* the read lock, then the write.
BoxWrite(t, h, v) ==
    /\ Free(t)
    /\ issued[h].st = "live"
    /\ mapLock = 0
    /\ LET r == access(map, issued[h].id)
       IN /\ ReturnAs(t, "deref_mut",
                      IF r.tag = "value" THEN Res("unit", 0) ELSE r)
          /\ map' = IF r.tag = "value"
                    THEN write(map, issued[h].id, v) ELSE map
          /\ issued' = IF r.tag = "value"
                       THEN [issued EXCEPT ![h].val = v] ELSE issued
    /\ UNCHANGED <<available, mapLock, availLock>>
    /\ UNCHANGED <<arcs, weaks, cyc, cells, takes, ub>>

\* TinyBox::clone of box h: Self::new(self.deref().clone()); the deref, then
\* the insert of the copy.
StartBoxClone(t, h) ==
    /\ Free(t)
    /\ issued[h].st = "live"
    /\ mapLock = 0
    /\ Len(map) < MaxId + MaxOver
    /\ LET r == access(map, issued[h].id)
       IN IF r.tag = "value"
          THEN Call(t, "box_clone", "rem_avail", issued[h].id, Value(r.v))
          ELSE ReturnAs(t, "box_clone", r)
    /\ UNCHANGED <<arena, owned>>

\* Drop of box h: self.0.take(), MEMORY.take under the write lock; the value
\* take returns is dropped at the end of the statement (its destructor runs).
BoxDrop(t, h) ==
    /\ Free(t)
    /\ issued[h].st = "live"
    /\ mapLock = 0
    /\ LET r == access(map, issued[h].id)
       IN /\ ReturnAs(t, "box_drop",
                      IF r.tag = "value" THEN Res("unit", 0) ELSE r)
          /\ map' = IF r.tag = "value"
                    THEN take_box(map, issued[h].id) ELSE map
          /\ issued' = IF r.tag = "value"
                       THEN [issued EXCEPT ![h].st = "taken", ![h].got = r.v,
                                           ![h].drops = @ + 1]
                       ELSE issued
    /\ UNCHANGED <<available, mapLock, availLock>>
    /\ UNCHANGED <<arcs, weaks, cyc, cells, takes, ub>>

----------------------------------------------------------------------------
\* sync.rs: TinyArc and TinyWeak.  The model follows one RefCounted cell (a
\* second one is not created); raw inserts are the other traffic of the arena.

\* No RefCounted cell has been inserted and no call is about to insert one.
NoCell ==
    /\ cells = {}
    /\ \A u \in Threads : op[u] \notin {"arc_new", "new_cyclic"}

\* Mutant of fetch_add: the increment is lost.
fetch_add_lost(c) == c

\* The count after fetch_add(1) / fetch_sub(1) on an AtomicU32 holding c.
fetch_add(c) == (c + 1) % CountMod

fetch_sub(c) == (c - 1) % CountMod

\* Mutant of last_owner: the count after the decrement is taken for the
\* count before it.
last_owner_new(owners) == owners = 0

\* Mutant of last_owner: no drop is the last one.
last_owner_none(owners) == FALSE

\* drop: `if owners == 1`, owners being the count fetch_sub replaced.
last_owner(owners) == owners = 1

\* TinyArc::new(value): TinyPtr::new(RefCounted { count: 1, value }).
StartArcNew(t, v) ==
    /\ Free(t)
    /\ Len(map) < MaxId + MaxOver
    /\ NoCell
    /\ Call(t, "arc_new", "rem_avail", 0, RefCounted(1, v))
    /\ UNCHANGED <<arena, owned>>

\* TinyArc::clone of an arc thread t owns: increase_count, then Self(self.0).
StartClone(t, id) ==
    /\ Idle(t)
    /\ arcs[t][id] > 0
    /\ Cell(id).count < MaxArcs
    /\ Call(t, "clone", "get", id, None)
    /\ UNCHANGED <<arena, owned>>

\* Drop of an arc thread t owns: decrease_count, then take if it was the last.
StartDrop(t, id) ==
    /\ Idle(t)
    /\ arcs[t][id] > 0
    /\ arcs' = [arcs EXCEPT ![t][id] = @ - 1]
    /\ Call(t, "drop", "get", id, None)
    /\ UNCHANGED <<arena, issued, weaks, cyc, cells, takes, ub>>

\* Deref of an arc thread t owns.
StartDeref(t, id) ==
    /\ Idle(t)
    /\ arcs[t][id] > 0
    /\ Call(t, "deref", "get", id, None)
    /\ UNCHANGED <<arena, owned>>

\* Mutant of Downgrade: the weak pointer is counted like a clone.
DowngradeCounted(t, id) ==
    /\ Idle(t)
    /\ arcs[t][id] > 0
    /\ weaks[id] < MaxWeaks
    /\ weaks' = [weaks EXCEPT ![id] = @ + 1]
    /\ map' = [map EXCEPT ![id].count = fetch_add(@)]
    /\ UNCHANGED <<available, mapLock, availLock>>
    /\ UNCHANGED <<control, issued, arcs, cyc, cells, takes, ub>>

\* TinyArc::downgrade: TinyWeak(this.0); the arena is not touched.
Downgrade(t, id) ==
    /\ Idle(t)
    /\ arcs[t][id] > 0
    /\ weaks[id] < MaxWeaks
    /\ weaks' = [weaks EXCEPT ![id] = @ + 1]
    /\ UNCHANGED <<arena, control, issued, arcs, cyc, cells, takes, ub>>

\* TinyWeak::clone: Self(self.0); the arena is not touched.
WeakClone(t, id) ==
    /\ Idle(t)
    /\ weaks[id] > 0
    /\ weaks[id] < MaxWeaks
    /\ weaks' = [weaks EXCEPT ![id] = @ + 1]
    /\ UNCHANGED <<arena, control, issued, arcs, cyc, cells, takes, ub>>

\* TinyWeak::upgrade: let arc = TinyArc(self.0); increase_count(&arc); arc.
StartUpgrade(t, id) ==
    /\ Idle(t)
    /\ weaks[id] > 0
    /\ Cell(id).count < MaxArcs
    /\ Call(t, "upgrade", "get", id, None)
    /\ UNCHANGED <<arena, owned>>

\* TinyArc::get: &*self.0.get(), that is MEMORY.access under the read lock.
\* It is the first step of increase_count, decrease_count and deref; the
\* pointer it returns is used after the lock has been released.
Get(t) ==
    /\ pc[t] = "get"
    /\ mapLock = 0
    /\ LET r == access(map, arg[t].id)
       IN IF r.tag \in Panics
          THEN /\ Return(t, r)
               /\ cyc' = IF op[t] = "new_cyclic"
                         THEN [cyc EXCEPT ![t] = 0] ELSE cyc
          ELSE /\ Goto(t, CASE op[t] = "drop" -> "fetch_sub"
                            [] op[t] = "deref" -> "load"
                            [] OTHER -> "fetch_add")
               /\ UNCHANGED cyc
    /\ UNCHANGED <<arena, issued, arcs, weaks, cells, takes, ub>>

\* The old count a fetch or load through the pointer can observe: the cell's
\* count, or anything when the cell has been freed (use after free).
Observed(id) ==
    IF Cell(id).occ THEN {Cell(id).count} ELSE 0..MaxArcs

\* The table after the count of cell id is set to c: a write through a
\* dangling pointer does not reach the table.
Store(id, c) ==
    IF Cell(id).occ THEN [map EXCEPT ![id].count = c] ELSE map

\* increase_count: count.fetch_add(1, Relaxed) through the pointer; then clone
\* and upgrade return the new TinyArc (a clone may be moved to another thread),
\* and new_cyclic returns `this`.
FetchAdd(t) ==
    /\ pc[t] = "fetch_add"
    /\ \E old \in Observed(arg[t].id) :
         /\ map' = Store(arg[t].id, fetch_add(old))
         /\ Return(t, Res("arc", arg[t].id))
    /\ \E u \in Threads :
         /\ op[t] # "clone" => u = t
         /\ arcs' = [arcs EXCEPT ![u][arg[t].id] = @ + 1]
    /\ cyc' = IF op[t] = "new_cyclic" THEN [cyc EXCEPT ![t] = 0] ELSE cyc
    /\ ub' = (ub \/ ~Cell(arg[t].id).occ)
    /\ UNCHANGED <<available, mapLock, availLock>>
    /\ UNCHANGED <<issued, weaks, cells, takes>>

\* decrease_count: count.fetch_sub(1, Relaxed) through the pointer; drop goes
\* on to take the slot when the count it replaced was 1.
FetchSub(t) ==
    /\ pc[t] = "fetch_sub"
    /\ \E old \in Observed(arg[t].id) :
         /\ map' = Store(arg[t].id, fetch_sub(old))
         /\ IF last_owner(old) THEN Goto(t, "arc_take")
            ELSE Return(t, Res("unit", 0))
    /\ ub' = (ub \/ ~Cell(arg[t].id).occ)
    /\ UNCHANGED <<available, mapLock, availLock>>
    /\ UNCHANGED <<issued, arcs, weaks, cyc, cells, takes>>

\* drop: self.0.take(), MEMORY.take under the write lock; the RefCounted and
\* the value in it are dropped.
ArcTake(t) ==
    /\ pc[t] = "arc_take"
    /\ mapLock = 0
    /\ LET r == access(map, arg[t].id)
       IN IF r.tag \in Panics
          THEN /\ Return(t, r)
               /\ UNCHANGED <<map, takes>>
          ELSE /\ Return(t, Res("unit", 0))
               /\ map' = take(map, arg[t].id)
               /\ takes' = [takes EXCEPT ![arg[t].id] = @ + 1]
    /\ UNCHANGED <<available, mapLock, availLock>>
    /\ UNCHANGED <<issued, arcs, weaks, cyc, cells, ub>>

\* deref: count.load(Relaxed) == 0 panics, otherwise &refcounted.value.
Load(t) ==
    /\ pc[t] = "load"
    /\ \E c \in Observed(arg[t].id) :
         IF c = 0 THEN Return(t, Res("NotBuilt", 0))
         ELSE Return(t, Res("deref", Cell(arg[t].id).value))
    /\ ub' = (ub \/ ~Cell(arg[t].id).occ)
    /\ UNCHANGED <<arena, issued, arcs, weaks, cyc, cells, takes>>

\* new_cyclic: TinyPtr::new(RefCounted { count: 0, value: uninit }); when the
\* insert returns, data_fn(TinyWeak(ptr)) is running.
StartNewCyclic(t) ==
    /\ Free(t)
    /\ Len(map) < MaxId + MaxOver
    /\ NoCell
    /\ Call(t, "new_cyclic", "rem_avail", 0, RefCounted(0, Uninit))
    /\ UNCHANGED <<arena, owned>>

\* data_fn returns the value v: new_cyclic goes on with ptr.get_mut().
BuilderReturn(t, v) ==
    /\ Idle(t)
    /\ cyc[t] # 0
    /\ Call(t, "new_cyclic", "cyc_get", cyc[t], Value(v))
    /\ UNCHANGED <<arena, owned>>

\* new_cyclic: ptr.get_mut(), MEMORY.access under the read lock.
CycGet(t) ==
    /\ pc[t] = "cyc_get"
    /\ mapLock = 0
    /\ LET r == access(map, arg[t].id)
       IN IF r.tag \in Panics
          THEN /\ Return(t, r)
               /\ cyc' = [cyc EXCEPT ![t] = 0]
          ELSE /\ Goto(t, "cyc_write")
               /\ UNCHANGED cyc
    /\ UNCHANGED <<arena, issued, arcs, weaks, cells, takes, ub>>

\* new_cyclic: addr_of_mut!(ptr.value).write(data), then increase_count.
CycWrite(t) ==
    /\ pc[t] = "cyc_write"
    /\ map' = IF Cell(arg[t].id).occ
              THEN [map EXCEPT ![arg[t].id].value = arg[t].val.value]
              ELSE map
    /\ ub' = (ub \/ ~Cell(arg[t].id).occ)
    /\ Goto(t, "get")
    /\ UNCHANGED <<available, mapLock, availLock>>
    /\ UNCHANGED <<issued, arcs, weaks, cyc, cells, takes>>

----------------------------------------------------------------------------
Init ==
    /\ map = <<>>
    /\ available = <<>>
    /\ mapLock = 0
    /\ availLock = 0
    /\ pc = [t \in Threads |-> "idle"]
    /\ op = [t \in Threads |-> "none"]
    /\ arg = [t \in Threads |-> NoArg]
    /\ result = Ret("none", "none", 0)
    /\ issued = <<>>
    /\ arcs = [t \in Threads |-> [id \in SlotIds |-> 0]]
    /\ weaks = [id \in SlotIds |-> 0]
    /\ cyc = [t \in Threads |-> 0]
    /\ cells = {}
    /\ takes = [id \in SlotIds |-> 0]
    /\ ub = FALSE

\* The calls are made one at a time: a thread moves only while every other
\* thread is between calls.
Serial(t) == \A u \in Threads \ {t} : Free(u)

Next ==
    \/ \E t \in Threads, v \in Values : Serial(t) /\ StartInsert(t, v)
    \/ \E t \in Threads : Serial(t) /\ RemLockAvail(t)
    \/ \E t \in Threads : Serial(t) /\ RemReadMap(t)
    \/ \E t \in Threads : Serial(t) /\ InsLockMap(t)
    \/ \E t \in Threads : Serial(t) /\ InsPop(t)
    \/ \E t \in Threads, h \in DOMAIN issued : Serial(t) /\ Access(t, h)
    \/ \E t \in Threads, h \in DOMAIN issued : Serial(t) /\ Take(t, h)

Spec == Init /\ [][Next]_vars

\* Any interleaving of the threads' steps.
NextConc ==
    \/ \E t \in Threads, v \in Values : StartInsert(t, v)
    \/ \E t \in Threads : RemLockAvail(t)
    \/ \E t \in Threads : RemReadMap(t)
    \/ \E t \in Threads : InsLockMap(t)
    \/ \E t \in Threads : InsPop(t)
    \/ \E t \in Threads, h \in DOMAIN issued : Access(t, h)
    \/ \E t \in Threads, h \in DOMAIN issued : Take(t, h)

SpecConc == Init /\ [][NextConc]_vars

\* TinyBox: new, deref, deref_mut, clone and drop, the calls made one at a
\* time.
NextBox ==
    \/ \E t \in Threads, v \in Values :
          Serial(t) /\ Len(issued) < MaxBoxes /\ StartInsert(t, v)
    \/ \E t \in Threads : Serial(t) /\ RemLockAvail(t)
    \/ \E t \in Threads : Serial(t) /\ RemReadMap(t)
    \/ \E t \in Threads : Serial(t) /\ InsLockMap(t)
    \/ \E t \in Threads : Serial(t) /\ InsPop(t)
    \/ \E t \in Threads, h \in DOMAIN issued : Serial(t) /\ BoxDeref(t, h)
    \/ \E t \in Threads, h \in DOMAIN issued, v \in Values :
          Serial(t) /\ BoxWrite(t, h, v)
    \/ \E t \in Threads, h \in DOMAIN issued :
          Serial(t) /\ Len(issued) < MaxBoxes /\ StartBoxClone(t, h)
    \/ \E t \in Threads, h \in DOMAIN issued : Serial(t) /\ BoxDrop(t, h)

SpecBox == Init /\ [][NextBox]_vars

\* TinyArc and TinyWeak, the calls made one at a time; raw inserts (of one
\* value: what they store plays no part here) go on beside them.
NextArc ==
    \/ \E t \in Threads, v \in Values : Serial(t) /\ StartArcNew(t, v)
    \/ \E t \in Threads : Serial(t) /\ StartInsert(t, MaxVal)
    \/ \E t \in Threads : Serial(t) /\ RemLockAvail(t)
    \/ \E t \in Threads : Serial(t) /\ RemReadMap(t)
    \/ \E t \in Threads : Serial(t) /\ InsLockMap(t)
    \/ \E t \in Threads : Serial(t) /\ InsPop(t)
    \/ \E t \in Threads, id \in cells : Serial(t) /\ StartClone(t, id)
    \/ \E t \in Threads, id \in cells : Serial(t) /\ StartDrop(t, id)
    \/ \E t \in Threads, id \in cells : Serial(t) /\ StartDeref(t, id)
    \/ \E t \in Threads, id \in cells : Serial(t) /\ Downgrade(t, id)
    \/ \E t \in Threads, id \in cells : Serial(t) /\ WeakClone(t, id)
    \/ \E t \in Threads, id \in cells : Serial(t) /\ StartUpgrade(t, id)
    \/ \E t \in Threads : Serial(t) /\ Get(t)
    \/ \E t \in Threads : Serial(t) /\ FetchAdd(t)
    \/ \E t \in Threads : Serial(t) /\ FetchSub(t)
    \/ \E t \in Threads : Serial(t) /\ ArcTake(t)
    \/ \E t \in Threads : Serial(t) /\ Load(t)

SpecArc == Init /\ [][NextArc]_vars

\* Threads cloning, dereferencing and dropping TinyArcs in any interleaving.
NextArcConc ==
    \/ \E t \in Threads, v \in Values : StartArcNew(t, v)
    \/ \E t \in Threads : RemLockAvail(t)
    \/ \E t \in Threads : RemReadMap(t)
    \/ \E t \in Threads : InsLockMap(t)
    \/ \E t \in Threads : InsPop(t)
    \/ \E t \in Threads, id \in cells : StartClone(t, id)
    \/ \E t \in Threads, id \in cells : StartDrop(t, id)
    \/ \E t \in Threads, id \in cells : StartDeref(t, id)
    \/ \E t \in Threads : Get(t)
    \/ \E t \in Threads : FetchAdd(t)
    \/ \E t \in Threads : FetchSub(t)
    \/ \E t \in Threads : ArcTake(t)
    \/ \E t \in Threads : Load(t)

SpecArcConc == Init /\ [][NextArcConc]_vars

\* Threads downgrading, upgrading and dropping in any interleaving.
NextWeakConc ==
    \/ \E t \in Threads, v \in Values : StartArcNew(t, v)
    \/ \E t \in Threads : RemLockAvail(t)
    \/ \E t \in Threads : RemReadMap(t)
    \/ \E t \in Threads : InsLockMap(t)
    \/ \E t \in Threads : InsPop(t)
    \/ \E t \in Threads, id \in cells : Downgrade(t, id)
    \/ \E t \in Threads, id \in cells : WeakClone(t, id)
    \/ \E t \in Threads, id \in cells : StartUpgrade(t, id)
    \/ \E t \in Threads, id \in cells : StartDrop(t, id)
    \/ \E t \in Threads : Get(t)
    \/ \E t \in Threads : FetchAdd(t)
    \/ \E t \in Threads : FetchSub(t)
    \/ \E t \in Threads : ArcTake(t)

SpecWeakConc == Init /\ [][NextWeakConc]_vars

\* new_cyclic with a builder that may upgrade the weak pointer it is given
\* and clone, dereference and drop what it gets; the calls are made one at a
\* time.
NextCyclic ==
    \/ \E t \in Threads : Serial(t) /\ StartNewCyclic(t)
    \/ \E t \in Threads : Serial(t) /\ RemLockAvail(t)
    \/ \E t \in Threads : Serial(t) /\ RemReadMap(t)
    \/ \E t \in Threads : Serial(t) /\ InsLockMap(t)
    \/ \E t \in Threads : Serial(t) /\ InsPop(t)
    \/ \E t \in Threads, v \in Values : Serial(t) /\ BuilderReturn(t, v)
    \/ \E t \in Threads : Serial(t) /\ CycGet(t)
    \/ \E t \in Threads : Serial(t) /\ CycWrite(t)
    \/ \E t \in Threads, id \in cells : Serial(t) /\ StartUpgrade(t, id)
    \/ \E t \in Threads, id \in cells : Serial(t) /\ StartClone(t, id)
    \/ \E t \in Threads, id \in cells : Serial(t) /\ StartDrop(t, id)
    \/ \E t \in Threads, id \in cells : Serial(t) /\ StartDeref(t, id)
    \/ \E t \in Threads : Serial(t) /\ Get(t)
    \/ \E t \in Threads : Serial(t) /\ FetchAdd(t)
    \/ \E t \in Threads : Serial(t) /\ FetchSub(t)
    \/ \E t \in Threads : Serial(t) /\ ArcTake(t)
    \/ \E t \in Threads : Serial(t) /\ Load(t)

SpecCyclic == Init /\ [][NextCyclic]_vars

\* No new_cyclic is between its insert and the return of data_fn.
NoBuilder == \A u \in Threads : cyc[u] = 0

\* TinyArc::ptr_eq on the ids of two TinyArcs: this.0.id() == other.0.id().
ptr_eq(this, other) == this = other

\* new_cyclic with a builder that only stores the weak pointer it is given:
\* upgrade, clone, deref and drop are called after new_cyclic has returned.
NextCyclicStored ==
    \/ \E t \in Threads : Serial(t) /\ StartNewCyclic(t)
    \/ \E t \in Threads : Serial(t) /\ RemLockAvail(t)
    \/ \E t \in Threads : Serial(t) /\ RemReadMap(t)
    \/ \E t \in Threads : Serial(t) /\ InsLockMap(t)
    \/ \E t \in Threads : Serial(t) /\ InsPop(t)
    \/ \E t \in Threads, v \in Values : Serial(t) /\ BuilderReturn(t, v)
    \/ \E t \in Threads : Serial(t) /\ CycGet(t)
    \/ \E t \in Threads : Serial(t) /\ CycWrite(t)
    \/ \E t \in Threads, id \in cells :
          Serial(t) /\ NoBuilder /\ StartUpgrade(t, id)
    \/ \E t \in Threads, id \in cells :
          Serial(t) /\ NoBuilder /\ StartClone(t, id)
    \/ \E t \in Threads, id \in cells :
          Serial(t) /\ NoBuilder /\ StartDrop(t, id)
    \/ \E t \in Threads, id \in cells :
          Serial(t) /\ NoBuilder /\ StartDeref(t, id)
    \/ \E t \in Threads : Serial(t) /\ Get(t)
    \/ \E t \in Threads : Serial(t) /\ FetchAdd(t)
    \/ \E t \in Threads : Serial(t) /\ FetchSub(t)
    \/ \E t \in Threads : Serial(t) /\ ArcTake(t)
    \/ \E t \in Threads : Serial(t) /\ Load(t)

SpecCyclicStored == Init /\ [][NextCyclicStored]_vars

----------------------------------------------------------------------------
\* Claims about the arena under serial calls (Spec).

\* C1 (round trip): every raw handle that has been returned by insert and not
\* yet taken accesses exactly the value it was inserted with, whatever inserts,
\* accesses and takes on other handles have happened.
C1_RoundTrip ==
    \A h \in Live : access(map, issued[h].id) = Res("value", issued[h].val)

\* A live handle has just been read back after another handle, inserted
\* before it, was taken and a third one was inserted.
C1_Witness ==
    \E h \in Live, g \in Taken :
        /\ g < h
        /\ h < Len(issued)
        /\ issued[g].val # issued[h].val
        /\ result = Ret("get", "value", issued[h].val)
        /\ \A t \in Threads : Idle(t)

\* C2 (single free): a take of a live handle returns the value inserted for
\* it, and from then on access and take through that handle end in a panic,
\* also after further inserts.
C2_SingleFree ==
    \A h \in Taken :
        /\ issued[h].got = issued[h].val
        /\ access(map, issued[h].id).tag \in Panics

\* A handle was taken, a later insert returned, and a call through the stale
\* handle has just panicked.
C2_Witness ==
    \E h \in Taken :
        /\ h < Len(issued)
        /\ result.tag = "Freed"
        /\ result.by \in {"get", "take"}
        /\ \A t \in Threads : Idle(t)

FreeList == {available[k] : k \in DOMAIN available}

\* C3 (reuse): a taken slot's id is on the free list, and an insert only fails
\* for lack of slots when RawId::MAX handles are live.
C3_Reuse ==
    /\ \A i \in DOMAIN map : ~map[i].occ => i \in FreeList
    /\ result.tag = "NoSlots" => Cardinality(Live) >= MaxId

AtCapacity == Cardinality(Live) = MaxId

\* C4 (capacity boundary): while RawId::MAX handles are live, every step of a
\* running insert leaves the table and the free list as they are, the insert
\* ends in the "no more slots" panic before it takes the write lock, and every
\* live handle still accesses its value.
C4_CapacityBoundary ==
    [][\A t \in Threads :
         (AtCapacity /\ op[t] = "insert" /\ pc'[t] # pc[t]) =>
            /\ map' = map
            /\ available' = available
            /\ pc'[t] \in {"rem_map", "idle"}
            /\ pc'[t] = "idle" => result' = Ret("insert", "NoSlots", 0)
            /\ \A h \in Live :
                 access(map', issued[h].id) = Res("value", issued[h].val)]_vars

\* An insert has just failed for lack of slots with RawId::MAX handles live.
C4_Witness ==
    /\ AtCapacity
    /\ result = Ret("insert", "NoSlots", 0)
    /\ \A t \in Threads : Idle(t)

----------------------------------------------------------------------------
\* Claims about TinyArc and TinyWeak.

RECURSIVE SumArcs(_, _)
SumArcs(id, n) == IF n = 0 THEN 0 ELSE arcs[n][id] + SumArcs(id, n - 1)

\* The TinyArcs over slot id that exist (one being dropped no longer counts,
\* one being created does not count yet).
Owners(id) == SumArcs(id, NThreads)

Quiet == \A t \in Threads : Idle(t)

\* C5 (shared refcounting, calls one at a time): while a TinyArc over the cell
\* exists the slot is Occupied and has not been taken; once the last one has
\* been dropped the slot is empty and was taken exactly once; no drop panics
\* (none tries to take the slot a second time).
C5_SharedRefcount ==
    \A id \in cells :
        /\ Owners(id) > 0 => (Cell(id).occ /\ takes[id] = 0)
        /\ (Owners(id) = 0 /\ Quiet) => (~Cell(id).occ /\ takes[id] = 1)
        /\ result.by = "drop" => result.tag = "unit"

\* The last TinyArc has just been dropped and the slot was taken.
C5_Witness ==
    \E id \in cells :
        /\ Owners(id) = 0
        /\ takes[id] = 1
        /\ result = Ret("drop", "unit", 0)
        /\ Quiet

\* C6 (concurrent clone and drop): in every interleaving, a thread that owns
\* a TinyArc over the cell, or is inside a clone or deref of one, finds the
\* slot Occupied; no freed cell is ever used; no drop panics on a slot taken
\* before; and when every thread has dropped all its TinyArcs the slot has
\* been taken exactly once.
C6_ConcurrentRefcount ==
    \A id \in cells :
        /\ \A t \in Threads :
              (arcs[t][id] > 0 \/ (arg[t].id = id /\ op[t] \in {"clone", "deref"}))
                  => (Cell(id).occ /\ takes[id] = 0)
        /\ ~ub
        /\ result.by = "drop" => result.tag = "unit"
        /\ takes[id] <= 1
        /\ (Held(id) = {} /\ Quiet) => (~Cell(id).occ /\ takes[id] = 1)

\* Two threads are inside drop at the same time, each about to decrement the
\* count, and no other TinyArc is left: one of the two has to take the slot.
C6_Witness ==
    \E id \in cells : \E t, u \in Threads :
        /\ t # u
        /\ op[t] = "drop" /\ pc[t] = "fetch_sub" /\ arg[t].id = id
        /\ op[u] = "drop" /\ pc[u] = "fetch_sub" /\ arg[u].id = id
        /\ Held(id) = {}

\* Every TinyArc over the cell has been dropped (the drops have returned).
Released(id) ==
    /\ id \in cells
    /\ Owners(id) = 0
    /\ \A u \in Threads : op[u] \notin {"arc_new", "clone", "drop", "deref"}
    /\ \A u \in Threads : cyc[u] # id

\* C7 (upgrade after full release): an upgrade of a TinyWeak whose cell has
\* been released ends in a panic at its first step and creates no TinyArc,
\* whatever was inserted in the meantime.
C7_UpgradeAfterRelease ==
    [][\A t \in Threads :
         (op[t] = "upgrade" /\ Released(arg[t].id) /\ pc'[t] # pc[t]) =>
            /\ pc'[t] = "idle"
            /\ result'.by = "upgrade"
            /\ result'.tag \in Panics
            /\ arcs' = arcs
            /\ map' = map]_vars

\* An upgrade has just panicked on a released cell after a raw insert that
\* followed the release.
C7_Witness ==
    \E id \in cells :
        /\ Released(id)
        /\ weaks[id] > 0
        /\ result = Ret("upgrade", "Freed", 0)
        /\ \E h \in DOMAIN issued : issued[h].id > id
        /\ Quiet

\* C8 (upgrade inside the builder): an upgrade that runs while data_fn is
\* running and the count is 0 returns no TinyArc and leaves the count at 0.
C8_UpgradeInBuilderFails ==
    [][\A t \in Threads :
         (/\ op[t] = "upgrade"
          /\ cyc[t] = arg[t].id
          /\ Cell(arg[t].id).count = 0
          /\ pc'[t] = "idle") =>
            /\ result'.tag \in Panics
            /\ arcs' = arcs
            /\ map'[arg[t].id].count = 0]_vars

\* C9 (no deref of the placeholder): no deref returns the uninitialised value
\* new_cyclic stores before data_fn's result is written.
C9_NoPlaceholderDeref ==
    ~(result.by = "deref" /\ result.tag = "deref" /\ result.v = Uninit)

----------------------------------------------------------------------------
\* Claims about the locks (SpecConc).

\* Thread t is inside insert_value and the lock it needs next is free.
CanStep(t) ==
    \/ pc[t] = "rem_avail" /\ availLock = 0
    \/ pc[t] = "rem_map" /\ mapLock = 0
    \/ pc[t] = "ins_map" /\ mapLock = 0
    \/ pc[t] = "ins_pop" /\ availLock = 0

\* C10 (no deadlock): whenever threads are inside arena calls, at least one of
\* them can take its next step; they never all wait for each other's locks.
C10_NoDeadlock ==
    (\E t \in Threads : ~Idle(t)) => (\E t \in Threads : ~Idle(t) /\ CanStep(t))

----------------------------------------------------------------------------
\* Claims about new_cyclic with a builder that only stores its weak pointer
\* (SpecCyclicStored).

\* C11 (cyclic construction): with a builder that only stores the weak
\* pointer, new_cyclic returns a TinyArc over the reserved slot holding the
\* builder's value; while such an arc exists every upgrade of the stored weak
\* pointer returns a TinyArc that is ptr_eq to it (same slot id) and every
\* deref reads the built value; and once all TinyArcs have been dropped the
\* slot is empty and was taken exactly once.
C11_CyclicConstruction ==
    \A id \in cells :
        /\ weaks[id] >= 1
        /\ result.by = "new_cyclic" => result.tag \in {"handle", "arc"}
        /\ (NoBuilder /\ Owners(id) > 0) =>
              /\ Cell(id).occ
              /\ takes[id] = 0
              /\ Cell(id).value \in Values
              /\ result.by \in {"new_cyclic", "upgrade"} =>
                    /\ result.tag = "arc"
                    /\ \A o \in SlotIds :
                          (\E t \in Threads : arcs[t][o] > 0) =>
                              ptr_eq(o, result.v)
              /\ result.by = "deref" =>
                    result = Ret("deref", "deref", Cell(id).value)
        /\ (NoBuilder /\ Owners(id) = 0 /\ Quiet) =>
              (~Cell(id).occ /\ takes[id] = 1)

\* After new_cyclic returned, the stored weak pointer has just been upgraded:
\* two TinyArcs over the cell exist.
C11_Witness ==
    \E id \in cells :
        /\ NoBuilder /\ Quiet
        /\ result = Ret("upgrade", "arc", id)
        /\ Owners(id) = 2
        /\ Cell(id).count = 2

----------------------------------------------------------------------------
\* Claims about TinyBox under serial calls (SpecBox).

\* The boxes that were returned by TinyBox::clone.
Clones == {h \in DOMAIN issued : issued[h].src # 0}

\* C12 (clone independence): clone returns a box over a slot different from
\* its source's that holds a copy of the source's value and leaves every
\* other slot as it is; and every live box reads the value last written
\* through it, whatever was written through or dropped from the other boxes.
C12_CloneIndependence ==
    /\ [](\A h \in Clones : issued[h].src # issued[h].id)
    /\ [](\A h \in Live :
             access(map, issued[h].id) = Res("value", issued[h].val))
    /\ [][\A t \in Threads :
            (op[t] = "box_clone" /\ pc[t] = "ins_pop" /\ pc'[t] = "idle") =>
               /\ result'.tag = "handle"
               /\ result'.v # arg[t].id
               /\ result'.v \in DOMAIN map'
               /\ map'[result'.v] = Value(map[arg[t].id].value)
               /\ \A i \in DOMAIN map : map'[i] = map[i]]_vars

\* A box was cloned, the clone was overwritten with another value, the source
\* was dropped, and the clone has just been read back.
C12_Witness ==
    \E h \in Clones \cap Live : \E g \in Taken :
        /\ issued[g].id = issued[h].src
        /\ issued[g].got # issued[h].val
        /\ result = Ret("get", "value", issued[h].val)
        /\ Quiet

\* C13 (box drop): the drop of a live box empties its slot, hands the value
\* last written through the box to its destructor, which runs once, and
\* changes no other slot; the slot of a dropped box stays empty and the
\* destructor never runs a second time.
C13_BoxDrop ==
    /\ [](\A h \in Taken :
             /\ ~Cell(issued[h].id).occ
             /\ issued[h].drops = 1)
    /\ [](\A h \in Live : issued[h].drops = 0)
    /\ [][\A h \in DOMAIN issued :
            (issued[h].st = "live" /\ issued'[h].st = "taken") =>
               /\ result' = Ret("box_drop", "unit", 0)
               /\ issued'[h].got = issued[h].val
               /\ \A i \in DOMAIN map :
                     i # issued[h].id => map'[i] = map[i]]_vars

\* A box has just been dropped while another box, created after it, was live.
C13_Witness ==
    \E h \in Taken : \E k \in Live :
        /\ h < k
        /\ result = Ret("box_drop", "unit", 0)
        /\ issued[h].drops = 1
        /\ Quiet

----------------------------------------------------------------------------
\* Claims about upgrade racing with drop (SpecWeakConc).

\* C14 (upgrade against the last drop): in every interleaving, a TinyArc that
\* exists (one returned by upgrade included) finds its slot Occupied and not
\* taken; no count of a taken cell is read or written; and no drop ends in
\* the panic of a second take.
C14_UpgradeDropRace ==
    \A id \in cells :
        /\ \A t \in Threads : arcs[t][id] > 0 => (Cell(id).occ /\ takes[id] = 0)
        /\ ~ub
        /\ result.by = "drop" => result.tag = "unit"

----------------------------------------------------------------------------
\* Claims about the arena under concurrent inserts (SpecConc).

\* C15 (table bound): the table never holds more than RawId::MAX slots, and
\* an insert that ends in a panic has not appended a slot.
C15_TableBound ==
    /\ [](Len(map) <= MaxId)
    /\ [][\A t \in Threads :
            (op[t] = "insert" /\ pc'[t] = "idle" /\ result'.tag \in Panics)
                => map' = map]_vars

\* C17 (unique ids): two live handles returned by different inserts have
\* different ids, every id issued lies in 1..RawId::MAX, and an insert
\* returns the position of the slot it appended (index + 1).
C17_UniqueIds ==
    /\ [](\A h, g \in Live : h # g => issued[h].id # issued[g].id)
    /\ [](\A h \in DOMAIN issued : issued[h].id \in 1..MaxId)
    /\ [][\A t \in Threads :
            (op[t] = "insert" /\ pc'[t] = "idle" /\ result'.tag = "handle")
                => (Len(map') = Len(map) + 1 /\ result'.v = Len(map'))]_vars

----------------------------------------------------------------------------
\* Claims about the life of a RefCounted cell.

\* The cell is Occupied with count 0.
Reserved(id) == Cell(id).occ /\ Cell(id).count = 0

\* The cell is Occupied with a count of at least 1.
LiveCell(id) == Cell(id).occ /\ Cell(id).count >= 1

\* The cell's slot has been taken.
Freed(id) == id \in cells /\ ~Cell(id).occ

\* A drop has brought the count to 0 and is about to take the slot.
Dropping(id) == \E t \in Threads : pc[t] = "arc_take" /\ arg[t].id = id

\* C16 (cell state machine): a cell is Occupied with count 0 only while its
\* new_cyclic is running (or inside the drop that is freeing it); a Reserved
\* cell only becomes Live, a Live cell only becomes Freed (through its last
\* drop); a Freed cell stays Freed, and every call that reaches for a Freed
\* cell ends in a panic at that step.
C16_CellStateMachine ==
    /\ [](\A id \in cells :
             Reserved(id) => ((\E t \in Threads : cyc[t] = id) \/ Dropping(id)))
    /\ [][\A id \in cells :
            /\ Freed(id) => Freed(id)'
            /\ (Reserved(id) /\ ~Reserved(id)') =>
                  IF Dropping(id) THEN Freed(id)' ELSE LiveCell(id)'
            /\ (LiveCell(id) /\ ~LiveCell(id)') =>
                  (Freed(id)' \/ (Reserved(id)' /\ Dropping(id)'))
            /\ \A t \in Threads :
                  (Freed(id) /\ arg[t].id = id /\ pc[t] # "idle"
                             /\ pc'[t] # pc[t]) =>
                      (pc'[t] = "idle" /\ result'.tag \in Panics)]_vars

\* C18 (new_cyclic commit): when new_cyclic returns its TinyArc, the cell holds
\* the value data_fn returned and its count is exactly 1.
C18_CyclicCommit ==
    [][\A t \in Threads :
         (op[t] = "new_cyclic" /\ pc[t] = "fetch_add" /\ pc'[t] = "idle") =>
            /\ result' = Ret("new_cyclic", "arc", arg[t].id)
            /\ map'[arg[t].id].value = arg[t].val.value
            /\ map'[arg[t].id].count = 1]_vars

\* C19 (weak pointers do not count): a step that creates a TinyWeak by
\* downgrade or TinyWeak::clone creates it over the id of an existing TinyArc
\* or TinyWeak and leaves the table, the counts and the TinyArcs as they are;
\* and when the last TinyArc has been dropped the slot is empty and was taken
\* once, however many TinyWeaks exist.
C19_WeakFrame ==
    /\ [][\A id \in SlotIds :
            (weaks'[id] # weaks[id]) =>
               /\ weaks'[id] = weaks[id] + 1
               /\ id \in cells
               /\ weaks[id] > 0 \/ \E t \in Threads : arcs[t][id] > 0
               /\ map' = map
               /\ arcs' = arcs
               /\ takes' = takes]_vars
    /\ [](\A id \in cells :
             (Owners(id) = 0 /\ Quiet /\ weaks[id] > 0) =>
                 (~Cell(id).occ /\ takes[id] = 1))

\* The last TinyArc has just been dropped and the slot was taken while
\* MaxWeaks TinyWeaks to the cell exist.
C19_Witness ==
    \E id \in cells :
        /\ weaks[id] = MaxWeaks
        /\ Owners(id) = 0
        /\ ~Cell(id).occ
        /\ takes[id] = 1
        /\ result = Ret("drop", "unit", 0)
        /\ Quiet

\* C20 (refcount invariant): whenever no call is in progress, the cell's slot
\* is Occupied exactly when a TinyArc over it exists, and then the count is
\* the number of TinyArcs over it.
C20_RefcountInvariant ==
    \A id \in cells :
        (Quiet /\ NoBuilder) =>
            /\ Cell(id).occ <=> Owners(id) > 0
            /\ Cell(id).occ => Cell(id).count = Owners(id)

====
